---- MODULE Spec2Model ----
(***************************************************************************)
(* Document ingestion and retrieval pipeline of ai-interactive-podcast:    *)
(*   backend/services/document_processor.py  (extract, chunk, process)     *)
(*   backend/database/vector_store.py        (store, search, get_all)      *)
(*                                                                         *)
(* Text is modelled as a run-length list: a sequence of <<kind, n>> runs,  *)
(* kind "ws" (whitespace) or "ch" (other characters), n >= 1, adjacent     *)
(* runs of different kinds.  <<>> is the empty string.                     *)
(***************************************************************************)
EXTENDS Integers, Sequences, FiniteSets

(* ------------------------------ bounds --------------------------------- *)
\* Longest chunk list handed directly to store_document_chunks.
MaxChunks == 2
\* Number of process_document calls that may be in flight together.
MaxCalls == 2

(* ------------------------- program constants --------------------------- *)
MinContentLength == 100
CHUNK_SIZE == 1000
CHUNK_OVERLAP == 200

(* ------------------------------ strings -------------------------------- *)
WS == "ws"
CH == "ch"

RECURSIVE Len_(_)
\* len(text)
Len_(t) == IF t = <<>> THEN 0 ELSE t[1][2] + Len_(Tail(t))

RECURSIVE Reverse(_)
Reverse(t) == IF t = <<>> THEN <<>> ELSE Append(Reverse(Tail(t)), t[1])

RECURSIVE LStrip(_)
LStrip(t) == IF t = <<>> THEN <<>>
             ELSE IF t[1][1] = WS THEN LStrip(Tail(t)) ELSE t

\* text.strip()
Strip(t) == Reverse(LStrip(Reverse(LStrip(t))))

\* a + b, keeping the run-length list normal
Concat(a, b) ==
    IF a = <<>> THEN b
    ELSE IF b = <<>> THEN a
    ELSE IF a[Len(a)][1] = b[1][1]
         THEN SubSeq(a, 1, Len(a) - 1)
              \o << <<b[1][1], a[Len(a)][2] + b[1][2]>> >>
              \o Tail(b)
         ELSE a \o b

RECURSIVE Drop(_, _)
\* text[n:]
Drop(t, n) ==
    IF n <= 0 \/ t = <<>> THEN t
    ELSE IF t[1][2] <= n THEN Drop(Tail(t), n - t[1][2])
    ELSE << <<t[1][1], t[1][2] - n>> >> \o Tail(t)

RECURSIVE Take(_, _)
\* text[:n]
Take(t, n) ==
    IF n <= 0 \/ t = <<>> THEN <<>>
    ELSE IF t[1][2] <= n THEN <<t[1]>> \o Take(Tail(t), n - t[1][2])
    ELSE << <<t[1][1], n>> >>

\* text[from:to]
Slice(t, from, to) == Take(Drop(t, from), to - from)

\* Python truthiness of a string
Truthy(t) == Len_(t) > 0

(* ------------------------------ PDF files ------------------------------ *)
\* The files process_document is called on: how open()/PdfReader behave on
\* each and the text page.extract_text() yields for each page.
FileNames == {"missing.pdf", "corrupt.pdf", "blank.pdf", "short.pdf",
              "edge.pdf", "long.pdf"}

PdfFile(name) ==
    CASE name = "missing.pdf" -> [open |-> "FileNotFoundError", pages |-> <<>>]
      [] name = "corrupt.pdf" -> [open |-> "Exception", pages |-> <<>>]
      [] name = "blank.pdf"   -> [open |-> "ok",
                                  pages |-> << << <<WS, 120>> >> >>]
      [] name = "short.pdf"   -> [open |-> "ok",
                                  pages |-> << << <<CH, 99>> >> >>]
      [] name = "edge.pdf"    -> [open |-> "ok",
                                  pages |-> << << <<WS, 3>>, <<CH, 100>>, <<WS, 1>> >> >>]
      [] name = "long.pdf"    -> [open |-> "ok",
                                  pages |-> << << <<CH, 700>> >>,
                                               << <<CH, 40>>, <<WS, 1>>, <<CH, 659>> >> >>]

RECURSIVE JoinPages(_)
\* for page in pdf_reader.pages: text += page.extract_text() + "\n\n"
JoinPages(pages) ==
    IF pages = <<>> THEN <<>>
    ELSE Concat(Concat(pages[1], << <<WS, 2>> >>), JoinPages(Tail(pages)))

\* extract_text_from_pdf: "" when the file cannot be opened or read, or holds
\* only whitespace; otherwise the stripped text of all pages.
extract_text_from_pdf(name) ==
    LET pdf == PdfFile(name) IN
    IF pdf.open # "ok" THEN <<>>
    ELSE LET text == JoinPages(pdf.pages) IN
         IF ~Truthy(Strip(text)) THEN <<>> ELSE Strip(text)

(* ------------------------------- chunker ------------------------------- *)
\* Number of windows of chunk_size characters, each starting chunk_size -
\* chunk_overlap after the one before, that cover n characters.
NumWindows(n, chunk_size, chunk_overlap) ==
    IF n <= chunk_size THEN 1
    ELSE ((n - chunk_overlap) + (chunk_size - chunk_overlap) - 1)
             \div (chunk_size - chunk_overlap)

RECURSIVE DropEmpty(_)
DropEmpty(chunks) ==
    IF chunks = <<>> THEN <<>>
    ELSE IF Truthy(chunks[1]) THEN <<chunks[1]>> \o DropEmpty(Tail(chunks))
    ELSE DropEmpty(Tail(chunks))

\* RecursiveCharacterTextSplitter.split_text at its last separator "": windows of
\* at most chunk_size characters sharing chunk_overlap, each stripped, empty
\* ones dropped.
split_text(text, chunk_size, chunk_overlap) ==
    LET step == chunk_size - chunk_overlap
        n    == NumWindows(Len_(text), chunk_size, chunk_overlap)
    IN  DropEmpty([i \in 1..n |->
            Strip(Slice(text, (i - 1) * step, (i - 1) * step + chunk_size))])

\* chunk_text
chunk_text(text, chunk_size, chunk_overlap) ==
    IF ~Truthy(text) \/ ~Truthy(Strip(text)) THEN <<>>
    ELSE split_text(text, chunk_size, chunk_overlap)

(* ----------------------------- exceptions ------------------------------ *)
\* An exception object: its class and the arguments it was raised with.
Exc(type, args) == [type |-> type, args |-> args]

\* str(e)
StrOf(e) == IF e.args = <<>> THEN "" ELSE e.args[1]

\* What a call of the index does besides its work: nothing, or raise.
NoFault == [raises |-> FALSE]
Fault(e) == [raises |-> TRUE, exc |-> e]
Faults == {NoFault,
           Fault(Exc("Exception", <<"Connection refused">>)),
           Fault(Exc("TimeoutError", <<>>))}
\* The faults drawn for a read of the index.
ReadFaults == {NoFault, Fault(Exc("Exception", <<"Connection refused">>))}

Returned(v) == [kind |-> "returned", value |-> v]
Raised(e) == [kind |-> "raised", exc |-> e]

(* ------------------------- the Chroma collection ----------------------- *)
\* The collection is the sequence of its records, in insertion order:
\* [id, document, metadata].
RECURSIVE SeqToSet(_)
SeqToSet(q) == IF q = <<>> THEN {} ELSE {q[1]} \cup SeqToSet(Tail(q))

Ids(coll) == {coll[k].id : k \in 1..Len(coll)}

RECURSIVE AddNewUpsert(_, _)
\* Faulty variant: collection.upsert: a record whose id is held replaces the held one.
AddNewUpsert(coll, records) ==
    IF records = <<>> THEN coll
    ELSE IF records[1].id \in Ids(coll)
    THEN AddNewUpsert([k \in 1..Len(coll) |->
                          IF coll[k].id = records[1].id THEN records[1] ELSE coll[k]],
                      Tail(records))
    ELSE AddNewUpsert(Append(coll, records[1]), Tail(records))

RECURSIVE AddNew(_, _)
\* Append the records whose id the collection does not hold yet.
AddNew(coll, records) ==
    IF records = <<>> THEN coll
    ELSE IF records[1].id \in Ids(coll) THEN AddNew(coll, Tail(records))
    ELSE AddNew(Append(coll, records[1]), Tail(records))

\* collection.add(documents, ids, metadatas): raises on a provider failure
\* (the embedding provider refusing a text is one), on an empty batch and on
\* ids repeated within the batch; a record whose id is already in the
\* collection is left as it is and the new one is ignored. The texts are
\* handed to the index as they come: which texts it embeds is the provider's
\* matter, and a call without a failure stores every one of them.
CollectionAdd(coll, documents, ids, metadatas, fault) ==
    IF fault.raises THEN [raised |-> TRUE, exc |-> fault.exc, coll |-> coll]
    ELSE IF ids = <<>>
    THEN [raised |-> TRUE, exc |-> Exc("ValueError", <<"Expected IDs to be a non-empty list">>),
          coll |-> coll]
    ELSE IF Cardinality(SeqToSet(ids)) # Len(ids)
    THEN [raised |-> TRUE, exc |-> Exc("DuplicateIDError", <<"Expected IDs to be unique">>),
          coll |-> coll]
    ELSE [raised |-> FALSE,
          coll |-> AddNew(coll, [k \in 1..Len(ids) |->
                       [id |-> ids[k], document |-> documents[k],
                        metadata |-> metadatas[k]]])]

\* where={"document_id": {"$in": document_ids}}; None matches every record.
NoWhere == [filtered |-> FALSE]
WhereIn(document_ids) == [filtered |-> TRUE, allowed |-> SeqToSet(document_ids)]

Matches(record, where) ==
    ~where.filtered \/ record.metadata.document_id \in where.allowed

RECURSIVE Select(_, _)
Select(coll, where) ==
    IF coll = <<>> THEN <<>>
    ELSE IF Matches(coll[1], where) THEN <<coll[1]>> \o Select(Tail(coll), where)
    ELSE Select(Tail(coll), where)

\* The orders in which the index may rank its n nearest matching records: the
\* similarity is the embedding provider's, so any order of any n of them.
Rankings(coll, where, n_results) ==
    LET hits == Select(coll, where)
        n    == IF n_results < Len(hits) THEN n_results ELSE Len(hits)
    IN  IF n <= 0 THEN {<<>>}
        ELSE {r \in [1..n -> 1..Len(hits)] :
                 \A a, b \in 1..n : a # b => r[a] # r[b]}

\* collection.query(query_texts=[query], n_results, where): raises on a
\* provider failure (the embedding provider refusing the query is one) and on
\* n_results <= 0.
CollectionQuery(coll, query, n_results, where, fault, ranking) ==
    IF fault.raises THEN [raised |-> TRUE, exc |-> fault.exc]
    ELSE IF n_results <= 0
    THEN [raised |-> TRUE,
          exc |-> Exc("ValueError", <<"Number of requested results cannot be negative, or zero">>)]
    ELSE LET hits == Select(coll, where)
             top  == [k \in 1..Len(ranking) |-> hits[ranking[k]]]
         IN  [raised |-> FALSE,
              results |-> [documents |-> << [k \in 1..Len(top) |-> top[k].document] >>,
                           ids       |-> << [k \in 1..Len(top) |-> top[k].id] >>,
                           metadatas |-> << [k \in 1..Len(top) |-> top[k].metadata] >>]]

\* collection.get(where)
CollectionGet(coll, where, fault) ==
    IF fault.raises THEN [raised |-> TRUE, exc |-> fault.exc]
    ELSE LET hits == Select(coll, where) IN
         [raised |-> FALSE,
          results |-> [documents |-> [k \in 1..Len(hits) |-> hits[k].document],
                       ids       |-> [k \in 1..Len(hits) |-> hits[k].id]]]

(* ----------------------------- vector_store ---------------------------- *)
\* None, as the value of an optional argument
NONE == "<None>"

\* a or b, for strings
Or(a, b) == IF a = NONE \/ a = "" THEN b ELSE a

\* An optional list argument: omitted (None) or a list.
Omitted == [given |-> FALSE, ids |-> <<>>]
Given(ids) == [given |-> TRUE, ids |-> ids]
\* Python truthiness of an optional list
TruthyList(l) == l.given /\ l.ids # <<>>

\* Faulty variant: f"{document_id}_chunk_{i + 1}": keys counted from 1
ChunkIdFromOne(document_id, i) == <<document_id, "_chunk_", i + 1>>

\* Faulty variant: f"chunk_{i}": the key without the document
ChunkIdNoDocument(document_id, i) == <<"", "_chunk_", i>>

\* f"{document_id}_chunk_{i}"
ChunkId(document_id, i) == <<document_id, "_chunk_", i>>

\* datetime.utcnow().isoformat() + "Z"
Timestamp(now) == <<now, "Z">>

\* Faulty variant: the guard that lets every list through
NoChunksNever(chunks) == FALSE

\* not chunks
NoChunks(chunks) == chunks = <<>>

\* Faulty variant: no except branch: the exception reaches the caller
StoreFailureReraise(e) == Raised(e)

\* The except branch of store_document_chunks.
StoreFailure(e) ==
    Returned([status |-> "failed", chunks_stored |-> 0, error |-> StrOf(e)])

\* store_document_chunks: the value it returns or the exception it raises,
\* the collection it leaves and the number of calls it made to the index.
store_document_chunks(coll, document_id, chunks, source, now, fault) ==
    IF NoChunks(chunks)
    THEN [outcome |-> Returned([status |-> "success", chunks_stored |-> 0]),
          coll |-> coll, index_calls |-> 0, index_fault |-> NoFault]
    ELSE LET timestamp == Timestamp(now)
             ids == [k \in 1..Len(chunks) |-> ChunkId(document_id, k - 1)]
             metadatas == [k \in 1..Len(chunks) |->
                             [document_id |-> document_id,
                              chunk_index |-> k - 1,
                              source      |-> Or(source, "unknown"),
                              timestamp   |-> timestamp]]
             added == CollectionAdd(coll, chunks, ids, metadatas, fault)
         IN  IF added.raised
             THEN [outcome |-> StoreFailure(added.exc),
                   coll |-> added.coll, index_calls |-> 1,
                   index_fault |-> Fault(added.exc)]
             ELSE [outcome |-> Returned([status |-> "success",
                                         chunks_stored |-> Len(chunks)]),
                   coll |-> added.coll, index_calls |-> 1,
                   index_fault |-> NoFault]

\* where_filter of search_documents
SearchFilter(document_ids) ==
    IF TruthyList(document_ids) THEN WhereIn(document_ids.ids) ELSE NoWhere

\* search_documents
search_documents(coll, query, document_ids, n_results, fault, ranking) ==
    LET q == CollectionQuery(coll, query, n_results, SearchFilter(document_ids),
                             fault, ranking)
    IN  IF q.raised THEN [outcome |-> Raised(q.exc), index_calls |-> 1,
                              index_fault |-> Fault(q.exc)]
        ELSE [outcome |-> Returned(
                 [chunks    |-> IF q.results.documents # <<>>
                                THEN q.results.documents[1] ELSE <<>>,
                  ids       |-> IF q.results.ids # <<>>
                                THEN q.results.ids[1] ELSE <<>>,
                  metadatas |-> IF q.results.metadatas # <<>>
                                THEN q.results.metadatas[1] ELSE <<>>]),
              index_calls |-> 1, index_fault |-> NoFault]

\* Faulty variant: get_all_chunks_for_documents reading the collection without a filter
get_all_unfiltered(coll, document_ids, fault) ==
    IF ~TruthyList(document_ids)
    THEN [outcome |-> Returned(<<>>), index_calls |-> 0, index_fault |-> NoFault]
    ELSE LET g == CollectionGet(coll, NoWhere, fault) IN
         IF g.raised THEN [outcome |-> Raised(g.exc), index_calls |-> 1,
                           index_fault |-> Fault(g.exc)]
         ELSE [outcome |-> Returned(g.results.documents), index_calls |-> 1,
               index_fault |-> NoFault]

\* get_all_chunks_for_documents
get_all_chunks_for_documents(coll, document_ids, fault) ==
    IF ~TruthyList(document_ids)
    THEN [outcome |-> Returned(<<>>), index_calls |-> 0, index_fault |-> NoFault]
    ELSE LET g == CollectionGet(coll, WhereIn(document_ids.ids), fault) IN
         IF g.raised THEN [outcome |-> Raised(g.exc), index_calls |-> 1,
                           index_fault |-> Fault(g.exc)]
         ELSE [outcome |-> Returned(IF g.results.documents # <<>>
                                    THEN g.results.documents ELSE <<>>),
               index_calls |-> 1, index_fault |-> NoFault]

(* -------------------------- document_processor ------------------------- *)
\* Faulty variant: the length check with <= for <
TooShortInclusive(text) == ~Truthy(text) \/ Len_(text) <= MinContentLength

\* The length check of process_document: not text or len(text) < 100
TooShort(text) == ~Truthy(text) \/ Len_(text) < MinContentLength

\* raise ValueError("Document too short or empty")
DocumentTooShort == Raised(Exc("ValueError", <<"Document too short or empty">>))

\* storage_result.get('error', 'Unknown error')
ErrorOf(storage_result) ==
    IF "error" \in DOMAIN storage_result THEN storage_result.error
    ELSE "Unknown error"

\* Faulty variant: process_document returning whatever the store reported
ProcessOutcomeUnchecked(storage_result) ==
    Returned([chunks_count |-> storage_result.chunks_stored,
              status       |-> storage_result.status])

\* What process_document does with the result of the store.
ProcessOutcome(storage_result) ==
    IF storage_result.status = "failed"
    THEN Raised(Exc("ValueError",
                    << <<"Failed to store document chunks: ", ErrorOf(storage_result)>> >>))
    ELSE Returned([chunks_count |-> storage_result.chunks_stored,
                   status       |-> storage_result.status])

(* ------------------------------- state --------------------------------- *)
VARIABLES
    collection,  \* the records of the shared Chroma collection, in insertion order
    calls,       \* the process_document calls: position and locals of each
    last         \* the call of a vector_store function whose outcome its caller
                 \* holds: arguments, outcome, calls made to the index and
                 \* the exception the index raised (fault)

vars == <<collection, calls, last>>

(* ------------------------------- inputs -------------------------------- *)
DocIds == {"d1", "d2"}
\* The chunk texts callers pass: the empty string and a text.
ChunkTexts == {<<>>, << <<CH, 2>>, <<WS, 1>>, <<CH, 4>> >>}
ChunkLists == UNION {[1..n -> ChunkTexts] : n \in 0..MaxChunks}
\* The documents callers store directly, one of them without a source name.
Uploads == {[document_id |-> "d1", source |-> NONE],
            [document_id |-> "d2", source |-> "notes.pdf"]}
Queries == {"", "machine learning"}
NResults == {0, 1}
\* document_ids of search_documents and of get_all_chunks_for_documents
SearchDocIds == {Omitted, Given(<<>>), Given(<<"d1">>)}
GetAllDocIds == {Given(<<>>), Given(<<"d2">>), Given(<<"d1", "d2">>)}
\* The readings datetime.utcnow() may give.
Times == {"2025-01-01T00:00:00"}
CallIds == 1..MaxCalls

IdleCall == [pc |-> "idle", document_id |-> "", file |-> "", text |-> <<>>,
             chunks |-> <<>>, chunked |-> FALSE, inserts |-> 0, written |-> 0,
             timestamp |-> <<>>,
             storage_result |-> [status |-> "none"],
             outcome |-> [kind |-> "pending"]]

Init ==
    /\ collection = <<>>
    /\ calls = [c \in CallIds |-> IdleCall]
    /\ last = [op |-> "none"]

(* ------------------------------- actions ------------------------------- *)
\* The record kept of a call of store_document_chunks.
StoreRecord(via, document_id, chunks, source, r, before) ==
    [op |-> "store", via |-> via, document_id |-> document_id, chunks |-> chunks,
     source |-> source, fault |-> r.index_fault,
     outcome |-> r.outcome, index_calls |-> r.index_calls, before |-> before]

NoCall == [op |-> "none"]

\* A caller calls store_document_chunks(document_id, chunks, source).
CallStoreDocumentChunks(document_id, chunks, source, now, fault) ==
    LET r == store_document_chunks(collection, document_id, chunks, source, now, fault)
    IN  /\ last = NoCall
        /\ collection' = r.coll
        /\ last' = StoreRecord(0, document_id, chunks, source, r, collection)
        /\ UNCHANGED calls

\* A caller calls search_documents(query, document_ids, n_results).
CallSearchDocuments(query, document_ids, n_results, fault, ranking) ==
    LET r == search_documents(collection, query, document_ids, n_results, fault, ranking)
    IN  /\ last = NoCall
        /\ last' = [op |-> "search", query |-> query, document_ids |-> document_ids,
                    n_results |-> n_results, fault |-> r.index_fault,
                    outcome |-> r.outcome, index_calls |-> r.index_calls]
        /\ UNCHANGED <<collection, calls>>

\* A caller calls get_all_chunks_for_documents(document_ids).
CallGetAllChunks(document_ids, fault) ==
    LET r == get_all_chunks_for_documents(collection, document_ids, fault)
    IN  /\ last = NoCall
        /\ last' = [op |-> "get_all", document_ids |-> document_ids,
                    fault |-> r.index_fault,
                    outcome |-> r.outcome, index_calls |-> r.index_calls]
        /\ UNCHANGED <<collection, calls>>

\* The caller of a vector_store function is done with its outcome.
Done ==
    /\ last # NoCall
    /\ last' = NoCall
    /\ UNCHANGED <<collection, calls>>

\* process_document up to its await: extract, check the length, chunk.
ProcessBegin(c, document_id, file) ==
    /\ calls[c].pc = "idle"
    /\ LET text == extract_text_from_pdf(file) IN
       IF TooShort(text)
       THEN calls' = [calls EXCEPT ![c] =
                [@ EXCEPT !.pc = "raised", !.document_id = document_id,
                          !.file = file, !.text = text,
                          !.outcome = DocumentTooShort]]
       ELSE calls' = [calls EXCEPT ![c] =
                [@ EXCEPT !.pc = "store", !.document_id = document_id,
                          !.file = file, !.text = text, !.chunked = TRUE,
                          !.chunks = chunk_text(text, CHUNK_SIZE, CHUNK_OVERLAP)]]
    /\ UNCHANGED <<collection, last>>

\* process_document: the awaited store_document_chunks(document_id, chunks,
\* source=file_path.name).
ProcessStore(c, now, fault) ==
    /\ calls[c].pc = "store"
    /\ LET call == calls[c]
           r == store_document_chunks(collection, call.document_id, call.chunks,
                                      call.file, now, fault)
       IN  /\ collection' = r.coll
           /\ last' = StoreRecord(c, call.document_id, call.chunks, call.file,
                                  r, collection)
           /\ calls' = [calls EXCEPT ![c] =
                  IF r.outcome.kind = "raised"
                  THEN [@ EXCEPT !.pc = "raised", !.inserts = @ + 1,
                                 !.written = Len(r.coll) - Len(collection),
                                 !.timestamp = Timestamp(now),
                                 !.outcome = r.outcome]
                  ELSE [@ EXCEPT !.pc = "check", !.inserts = @ + 1,
                                 !.written = Len(r.coll) - Len(collection),
                                 !.timestamp = Timestamp(now),
                                 !.storage_result = r.outcome.value]]

\* process_document after the await: raise on "failed", else return the result.
ProcessFinish(c) ==
    /\ calls[c].pc = "check"
    /\ LET out == ProcessOutcome(calls[c].storage_result) IN
       calls' = [calls EXCEPT ![c] =
                    [@ EXCEPT !.pc = out.kind, !.outcome = out]]
    /\ UNCHANGED <<collection, last>>

\* The callers of the chunk store.
NextStore ==
    \/ \E u \in Uploads, ch \in ChunkLists, t \in Times, f \in Faults :
           CallStoreDocumentChunks(u.document_id, ch, u.source, t, f)
    \/ \E q \in Queries, ids \in SearchDocIds, n \in NResults, f \in ReadFaults :
           \E r \in Rankings(collection, SearchFilter(ids), n) :
               CallSearchDocuments(q, ids, n, f, r)
    \/ \E ids \in GetAllDocIds, f \in ReadFaults : CallGetAllChunks(ids, f)
    \/ Done

\* The ingestion calls.
NextIngest ==
    \/ \E c \in CallIds, d \in DocIds, file \in FileNames : ProcessBegin(c, d, file)
    \/ \E c \in CallIds, t \in Times, f \in Faults : ProcessStore(c, t, f)
    \/ \E c \in CallIds : ProcessFinish(c)
    \/ Done

Next == NextStore \/ NextIngest

Spec == Init /\ [][Next]_vars

\* The chunk store under its direct callers alone.
StoreSpec == Init /\ [][NextStore]_vars

\* Concurrent ingestion calls alone.
IngestSpec == Init /\ [][NextIngest]_vars

(* ------------------------------ properties ----------------------------- *)
\* The records of one document
RecordsOf(coll, document_id) == Select(coll, WhereIn(<<document_id>>))

Max(a, b) == IF a >= b THEN a ELSE b

\* A call of store_document_chunks on a non-empty list during which the index raised
StoreFaulted ==
    /\ last.op = "store"
    /\ last.chunks # <<>>
    /\ last.fault.raises

\* A call of store_document_chunks on a non-empty list that reported success
StoreSucceeded ==
    /\ last.op = "store"
    /\ last.chunks # <<>>
    /\ last.outcome.kind = "returned"
    /\ last.outcome.value.status = "success"

\* C1 as claimed: when the index raises during the batch add,
\* store_document_chunks returns status "failed", chunks_stored 0 and an error
\* that is a non-empty string.
C1_ErrorNonEmpty ==
    StoreFaulted =>
        /\ last.outcome.kind = "returned"
        /\ last.outcome.value.status = "failed"
        /\ last.outcome.value.chunks_stored = 0
        /\ last.outcome.value.error # ""

\* C1 as amended: when the index raises during the batch add,
\* store_document_chunks does not raise; it returns status "failed",
\* chunks_stored 0 and as error the text str(e) of the exception, which is
\* empty when the exception carries no message.  The collection is as before.
C1_FailedOutcome ==
    StoreFaulted =>
        /\ last.outcome.kind = "returned"
        /\ last.outcome.value.status = "failed"
        /\ last.outcome.value.chunks_stored = 0
        /\ last.outcome.value.error = StrOf(last.fault.exc)
        /\ (last.fault.exc.args # <<>> => last.outcome.value.error # "")
        /\ collection = last.before

C1_Witness ==
    /\ StoreFaulted
    /\ last.outcome.kind = "returned"
    /\ last.outcome.value.error = "Connection refused"
    /\ Len(last.chunks) = MaxChunks

\* C2: when the store reports "failed" to process_document, the call raises
\* the ValueError that carries the store's error message, never returns, and
\* has called the store exactly once.
C2_StorageFailure ==
    \A c \in CallIds :
        calls[c].storage_result.status = "failed" =>
            /\ calls[c].inserts = 1
            /\ calls[c].pc \in {"check", "raised"}
            /\ calls[c].pc = "raised" =>
                   calls[c].outcome =
                       Raised(Exc("ValueError",
                                  << <<"Failed to store document chunks: ",
                                       calls[c].storage_result.error>> >>))

C2_Witness ==
    \E c \in CallIds :
        /\ calls[c].pc = "raised"
        /\ calls[c].storage_result.status = "failed"
        /\ calls[c].storage_result.error = "Connection refused"

\* The text of all pages of a file that can be read, before it is stripped
RawText(file) == JoinPages(PdfFile(file).pages)

\* C3: a process_document call whose extracted text is empty, only whitespace
\* or shorter than 100 characters raises "Document too short or empty" without
\* chunking and without calling or changing the store; a text of 100
\* characters or more passes the length check.
C3_DocumentTooShort ==
    \A c \in CallIds :
        calls[c].pc # "idle" =>
            /\ (\/ Len_(calls[c].text) < 100
                \/ Strip(RawText(calls[c].file)) = <<>>) =>
                   /\ calls[c].pc = "raised"
                   /\ calls[c].outcome = DocumentTooShort
                   /\ ~calls[c].chunked
                   /\ calls[c].inserts = 0
                   /\ calls[c].written = 0
            /\ Len_(calls[c].text) >= 100 =>
                   /\ calls[c].chunked
                   /\ calls[c].outcome # DocumentTooShort

C3_Witness ==
    \E c1, c2 \in CallIds :
        /\ Len_(calls[c1].text) = 99
        /\ calls[c1].pc = "raised"
        /\ Len_(calls[c2].text) = 100
        /\ calls[c2].pc = "returned"

\* C4 as claimed: a process_document call that returns returns status
\* "success" with chunks_count >= 1, and chunks_count is the number of chunks
\* the chunker produced and the number of records the call wrote to the store.
C4_ChunksCount ==
    \A c \in CallIds :
        calls[c].pc = "returned" =>
            /\ calls[c].outcome.value.status = "success"
            /\ calls[c].outcome.value.chunks_count >= 1
            /\ calls[c].outcome.value.chunks_count = Len(calls[c].chunks)
            /\ calls[c].outcome.value.chunks_count = calls[c].written

\* C5: store_document_chunks on an empty list returns status "success" with
\* chunks_stored 0, calls the index zero times and leaves the collection as
\* it was.
C5_EmptyChunks ==
    (last.op = "store" /\ last.chunks = <<>>) =>
        /\ last.outcome = Returned([status |-> "success", chunks_stored |-> 0])
        /\ last.index_calls = 0
        /\ collection = last.before

C5_Witness ==
    /\ last.op = "store"
    /\ last.chunks = <<>>
    /\ collection # <<>>

\* C6 as claimed: when search_documents is given document_ids (anything but
\* None), every chunk it returns has a document_id among them.
C6_Restricted ==
    (/\ last.op = "search"
     /\ last.document_ids.given
     /\ last.outcome.kind = "returned") =>
        \A k \in 1..Len(last.outcome.value.metadatas) :
            last.outcome.value.metadatas[k].document_id
                \in SeqToSet(last.document_ids.ids)

\* C7: after store_document_chunks(d, C) succeeds for a non-empty C on a store
\* that holds records of other documents only,
\* get_all_chunks_for_documents([d]) returns len(C) texts whose set is the set
\* of C.
C7_RoundTrip ==
    (StoreSucceeded /\ RecordsOf(last.before, last.document_id) = <<>>) =>
        LET got == get_all_chunks_for_documents(
                       collection, Given(<<last.document_id>>), NoFault).outcome.value
        IN  /\ Len(got) = Len(last.chunks)
            /\ SeqToSet(got) = SeqToSet(last.chunks)

C7_Witness ==
    /\ StoreSucceeded
    /\ RecordsOf(last.before, last.document_id) = <<>>
    /\ last.before # <<>>
    /\ Len(last.chunks) = MaxChunks
    /\ Cardinality(SeqToSet(last.chunks)) > 1

\* A successful call of store_document_chunks on a document that has records
Reingested == StoreSucceeded /\ RecordsOf(last.before, last.document_id) # <<>>

RecordsWritten(call) ==
    [k \in 1..Len(call.chunks) |->
        [id |-> ChunkId(call.document_id, k - 1),
         document |-> call.chunks[k],
         metadata |-> [document_id |-> call.document_id,
                       chunk_index |-> k - 1,
                       source      |-> call.file,
                       timestamp   |-> call.timestamp]]]

\* C9: among process_document calls with pairwise distinct document_ids,
\* however their steps interleave, the store holds for each call that stored
\* its chunks exactly the records that call writes when run alone, with keys
\* {document_id}_chunk_0 .. _chunk_{n-1}.
C9_NoInterference ==
    \A c \in CallIds :
        (/\ calls[c].storage_result.status = "success"
         /\ \A c2 \in CallIds \ {c} :
                calls[c2].pc # "idle" => calls[c2].document_id # calls[c].document_id)
        => RecordsOf(collection, calls[c].document_id) = RecordsWritten(calls[c])

C9_Witness ==
    \E c1, c2 \in CallIds :
        /\ calls[c1].pc = "check" /\ calls[c1].storage_result.status = "success"
        /\ calls[c2].pc = "check" /\ calls[c2].storage_result.status = "success"
        /\ calls[c1].document_id # calls[c2].document_id
        /\ Len(calls[c1].chunks) > 1
        /\ Len(collection) = Len(calls[c1].chunks) + Len(calls[c2].chunks)

\* C10 as claimed: no caller of store_document_chunks, search_documents or
\* get_all_chunks_for_documents sees an exception of the index.
C10_NoRawException ==
    last # NoCall => last.outcome.kind # "raised"

\* C11 as claimed: search_documents called with an empty query or with
\* n_results <= 0 raises an InvalidInput error of its own and makes no call to
\* the index.
C11_ValidatedFirst ==
    (/\ last.op = "search"
     /\ (last.query = "" \/ last.n_results <= 0))
    => /\ last.outcome.kind = "raised"
       /\ last.outcome.exc.type = "InvalidInput"
       /\ last.index_calls = 0

\* C12 as claimed: whatever chunk lists store_document_chunks is called with,
\* no record of the collection has the empty string as its text.
C12_NoEmptyText ==
    \A k \in 1..Len(collection) : collection[k].document # <<>>

\* C13: for every document, the chunk_index values of its records are exactly
\* 0..k-1 for the number k of its records, and every record's key is
\* {document_id}_chunk_{chunk_index}; each record a successful call of
\* store_document_chunks has written belongs to the call's document and holds
\* the text at position chunk_index of the chunks the call was given.
C13_IndexedFromZero ==
    /\ \A d \in DocIds :
          LET rs == RecordsOf(collection, d) IN
          /\ {rs[k].metadata.chunk_index : k \in 1..Len(rs)} = 0..(Len(rs) - 1)
          /\ \A k \in 1..Len(rs) :
                rs[k].id = <<d, "_chunk_", rs[k].metadata.chunk_index>>
    /\ StoreSucceeded =>
          \A k \in (Len(last.before) + 1)..Len(collection) :
             LET i == collection[k].metadata.chunk_index IN
             /\ collection[k].metadata.document_id = last.document_id
             /\ i + 1 \in 1..Len(last.chunks)
             /\ collection[k].document = last.chunks[i + 1]

\* A call has extended a document that had records, next to another
\* document's records, with chunks that differ from one another.
C13_Witness ==
    /\ Reingested
    /\ Len(last.chunks) = MaxChunks
    /\ Len(collection) > Len(last.before)
    /\ Len(RecordsOf(collection, last.document_id)) = MaxChunks
    /\ Len(collection) > MaxChunks
    /\ Cardinality(SeqToSet(last.chunks)) > 1

====
